---- MODULE Spec2Model ----
(***************************************************************************)
(* Transfer-state synchronisation layer of distpac: the transmission       *)
(* wrapper (daemon lifecycle, report reconciliation, lookup by name), the   *)
(* quantity parser, and the client's install workflow that polls it.        *)
(*                                                                         *)
(* Text is kept as text: a report is the sequence of its lines, a line is   *)
(* a string, and splitting, trimming and parsing are computed character by  *)
(* character as the code computes them.                                     *)
(***************************************************************************)
EXTENDS Integers, Sequences, FiniteSets, TLC

(***************************************************************************)
(* Text helpers (std::str as used by the wrapper)                          *)
(***************************************************************************)

\* The i-th character of s, as a one-character string.
Ch(s, i) == SubSeq(s, i, i)

IsWhite(c) == c \in {" ", "\t"}

IsDigit(c) == c \in {"0", "1", "2", "3", "4", "5", "6", "7", "8", "9"}

DigitVal(c) ==
    CASE c = "0" -> 0 [] c = "1" -> 1 [] c = "2" -> 2 [] c = "3" -> 3
      [] c = "4" -> 4 [] c = "5" -> 5 [] c = "6" -> 6 [] c = "7" -> 7
      [] c = "8" -> 8 [] c = "9" -> 9

\* str::trim: strip leading and trailing whitespace.
RECURSIVE TrimStart(_)
TrimStart(s) ==
    IF Len(s) > 0 /\ IsWhite(Ch(s, 1)) THEN TrimStart(SubSeq(s, 2, Len(s))) ELSE s

RECURSIVE TrimEnd(_)
TrimEnd(s) ==
    IF Len(s) > 0 /\ IsWhite(Ch(s, Len(s))) THEN TrimEnd(SubSeq(s, 1, Len(s) - 1)) ELSE s

Trim(s) == TrimEnd(TrimStart(s))

\* str::starts_with
StartsWith(s, p) == Len(s) >= Len(p) /\ SubSeq(s, 1, Len(p)) = p

\* str::split("  "): non-overlapping matches of the two-space delimiter,
\* searched left to right; always yields at least one (possibly empty) piece.
RECURSIVE SplitFrom(_, _)
SplitFrom(s, i) ==
    IF i + 1 > Len(s) THEN <<s>>
    ELSE IF SubSeq(s, i, i + 1) = "  "
         THEN <<SubSeq(s, 1, i - 1)>> \o SplitFrom(SubSeq(s, i + 2, Len(s)), 1)
         ELSE SplitFrom(s, i + 1)

SplitTwoSpaces(s) == SplitFrom(s, 1)

\* str::split_whitespace: the maximal runs of non-whitespace characters.
RECURSIVE WordEnd(_, _)
WordEnd(s, i) ==
    IF i > Len(s) \/ IsWhite(Ch(s, i)) THEN i - 1 ELSE WordEnd(s, i + 1)

RECURSIVE SplitWhitespace(_)
SplitWhitespace(s) ==
    LET t == TrimStart(s) IN
    IF Len(t) = 0 THEN <<>>
    ELSE LET e == WordEnd(t, 1) IN
         <<SubSeq(t, 1, e)>> \o SplitWhitespace(SubSeq(t, e + 1, Len(t)))

AllDigits(s) == Len(s) > 0 /\ \A i \in 1..Len(s) : IsDigit(Ch(s, i))

RECURSIVE DecValue(_)
DecValue(s) ==
    IF Len(s) = 0 THEN 0
    ELSE 10 * DecValue(SubSeq(s, 1, Len(s) - 1)) + DigitVal(Ch(s, Len(s)))

\* Index of the first occurrence of character c in s, 0 when absent.
RECURSIVE FindChar(_, _, _)
FindChar(s, c, i) ==
    IF i > Len(s) THEN 0 ELSE IF Ch(s, i) = c THEN i ELSE FindChar(s, c, i + 1)

(***************************************************************************)
(* Results of fallible calls: Ok(v) and Err(e)                              *)
(***************************************************************************)

Ok(v) == [ok |-> TRUE, val |-> v]

Err(e) == [ok |-> FALSE, err |-> e]

(***************************************************************************)
(* Number parsing (core::str::FromStr for u64 and f32)                      *)
(***************************************************************************)

\* A parse whose failure is replaced by the default value.
ParseU64OrZero(s) ==
    LET d == IF Len(s) > 0 /\ Ch(s, 1) = "+" THEN SubSeq(s, 2, Len(s)) ELSE s
    IN  IF AllDigits(d) THEN Ok(DecValue(d)) ELSE Ok(0)

\* u64::from_str: an optional "+" and then one or more decimal digits.
\* (Values stay far below 2^64 on the inputs of this model.)
ParseU64(s) ==
    LET d == IF Len(s) > 0 /\ Ch(s, 1) = "+" THEN SubSeq(s, 2, Len(s)) ELSE s
    IN  IF AllDigits(d) THEN Ok(DecValue(d)) ELSE Err("ParseIntError")

\* A decimal magnitude m * 10^e in canonical form: m carries no trailing
\* zero and zero is written <<0, 0>>.  This is the value an f32 stands for,
\* leaving its rounding aside.
RECURSIVE Canon(_, _)
Canon(m, e) ==
    IF m = 0 THEN [m |-> 0, e |-> 0]
    ELSE IF m % 10 = 0 THEN Canon(m \div 10, e + 1)
    ELSE [m |-> m, e |-> e]

\* f32::from_str on decimal literals: optional sign, digits with an optional
\* fractional part, at least one digit.  (f32 also accepts exponents and the
\* literals inf and nan; no input of this model uses them.)
ParseF32(s) ==
    LET neg  == Len(s) > 0 /\ Ch(s, 1) = "-"
        body == IF Len(s) > 0 /\ Ch(s, 1) \in {"+", "-"} THEN SubSeq(s, 2, Len(s)) ELSE s
        dot  == FindChar(body, ".", 1)
        int  == IF dot = 0 THEN body ELSE SubSeq(body, 1, dot - 1)
        frac == IF dot = 0 THEN "" ELSE SubSeq(body, dot + 1, Len(body))
        digs == int \o frac
    IN  IF AllDigits(digs)
        THEN Ok(Canon((IF neg THEN -1 ELSE 1) * DecValue(digs), -Len(frac)))
        ELSE Err("ParseFloatError")

(***************************************************************************)
(* bytes.rs: the quantity type and its parser                               *)
(***************************************************************************)

\* Bytes::zero
BytesZero == Canon(0, 0)

\* A unit table in which B stands for one byte.
UnitExpByteOne(u) ==
    CASE u = "B"  -> 0
      [] u = "kB" -> 3
      [] u = "MB" -> 6
      [] u = "GB" -> 9
      [] OTHER    -> -1

\* The exponent of the multiplier each unit token stands for.
UnitExp(u) ==
    CASE u = "B"  -> 1
      [] u = "kB" -> 3
      [] u = "MB" -> 6
      [] u = "GB" -> 9
      [] OTHER    -> -1

\* A parser that reads any unknown unit token as B.
BytesFromStrAnyUnit(s) ==
    LET pieces == SplitWhitespace(s) IN
    IF Len(pieces) = 0 THEN Err("InvalidByteFormat")
    ELSE LET amount == ParseF32(pieces[1])
             unit   == IF Len(pieces) >= 2 /\ UnitExp(pieces[2]) >= 0
                       THEN pieces[2] ELSE "B"
         IN  IF ~amount.ok THEN Err("InvalidByteFormat")
             ELSE Ok(Canon(amount.val.m, amount.val.e + UnitExp(unit)))

\* impl FromStr for Bytes
BytesFromStr(s) ==
    LET pieces == SplitWhitespace(s) IN
    IF Len(pieces) = 0 THEN Err("InvalidByteFormat")
    ELSE LET amount == ParseF32(pieces[1])
             unit   == IF Len(pieces) >= 2 THEN pieces[2] ELSE "B"
         IN  IF ~amount.ok THEN Err("InvalidByteFormat")
             ELSE IF UnitExp(unit) < 0 THEN Err("InvalidByteFormat")
             ELSE Ok(Canon(amount.val.m, amount.val.e + UnitExp(unit)))

(***************************************************************************)
(* entry.rs: the status enumeration and the entry record                    *)
(***************************************************************************)

\* The closed set of status tokens.
StatusTokens ==
    {"Stopped", "Checking", "Downloading", "Seeding", "Queued", "Verifying", "Error"}

\* impl FromStr for Status: an unrecognised token is a parse failure.
StatusFromStr(s) ==
    IF s \in StatusTokens THEN Ok(s) ELSE Err("InvalidEntryFormat")

\* Entry::completed(id, downloaded, status, name)
EntryCompleted(id, downloaded, status, name) ==
    [id |-> id, name |-> name, status |-> status,
     downloaded |-> downloaded, finished |-> TRUE]

\* Entry::is_finished
IsFinished(entry) == entry.finished

\* Entry::from_id(id): the record the daemon's per-identifier lookup yields
\* for id.  view is what the daemon answers during this refresh: for each id
\* either a failure or the name, status, downloaded quantity and completion
\* it reports.
EntryFromId(id, view) ==
    IF id \in DOMAIN view /\ view[id].ok
    THEN Ok([id |-> id, name |-> view[id].val.name, status |-> view[id].val.status,
             downloaded |-> view[id].val.downloaded,
             finished |-> view[id].val.finished])
    ELSE Err("LookupFailed")

(***************************************************************************)
(* Inputs: the reports the control utility may print and the answers the    *)
(* daemon may give to a per-identifier lookup                               *)
(***************************************************************************)

HeaderLine    == "ID  Done  Have  ETA  Up  Down  Ratio  Status  Name"
LineDone1     == "   1   100%  786.8 MB  Done  0.0  0.0  0.0  Seeding  a"
LinePart1     == "1  50%  5 kB  1 min  0.0  0.0  0.0  Downloading  a"
LineNa2       == "2  n/a  None  Unknown  0.0  0.0  None  Queued  b c"
LineDone2     == "2  100%  None  Done  0.0  0.0  0.0  Seeding  b c"
\* eight fields: a single space between "Done" and "0.0"
LineShort     == "2  100%  5 kB  Done 0.0  0.0  0.0  Seeding  b c"
LineBadId     == "x  100%  5 kB  Done  0.0  0.0  0.0  Seeding  a"
LineBadBytes  == "2  100%  5 XB  Done  0.0  0.0  0.0  Seeding  b c"
LineBadStatus == "2  100%  5 kB  Done  0.0  0.0  0.0  Bogus  b c"
\* nothing but whitespace
LineBlank     == "   "
SumLine       == "Sum:  786.8 MB  0.0  0.0"

\* Lines a report may start with, and lines it may continue with.
FirstLines == {HeaderLine, LineDone2}

DataLines ==
    {LineDone1, LinePart1, LineNa2, LineDone2, LineShort, LineBadId,
     LineBadBytes, LineBadStatus, LineBlank, SumLine}

\* The largest number of lines a report carries after its first line.
MaxDataLines == 2

RECURSIVE JoinLines(_)
JoinLines(ls) ==
    IF Len(ls) = 0 THEN "" ELSE Head(ls) \o "\n" \o JoinLines(Tail(ls))

RECURSIVE SeqsUpTo(_, _)
SeqsUpTo(S, n) ==
    IF n = 0 THEN {<<>>}
    ELSE LET shorter == SeqsUpTo(S, n - 1) IN
         shorter \cup {Append(q, l) : q \in shorter, l \in S}

Reports ==
    {""} \cup {JoinLines(<<f>> \o rest) : f \in FirstLines,
                                        rest \in SeqsUpTo(DataLines, MaxDataLines)}

(***************************************************************************)
(* lib.rs: lookups and reconciliation                                       *)
(***************************************************************************)

\* str::lines: the text cut at each "\n", a trailing "\r" of a line dropped,
\* and no empty last line after a final "\n".
StripCR(s) ==
    IF Len(s) > 0 /\ Ch(s, Len(s)) = "\r" THEN SubSeq(s, 1, Len(s) - 1) ELSE s

RECURSIVE Lines(_)
Lines(s) ==
    IF Len(s) = 0 THEN <<>>
    ELSE LET n == FindChar(s, "\n", 1) IN
         IF n = 0 THEN <<StripCR(s)>>
         ELSE <<StripCR(SubSeq(s, 1, n - 1))>> \o Lines(SubSeq(s, n + 1, Len(s)))

\* Index of the first entry with the identifier, 0 for None (Iterator::find).
RECURSIVE FindById(_, _, _)
FindById(entries, id, i) ==
    IF i > Len(entries) THEN 0
    ELSE IF entries[i].id = id THEN i
    ELSE FindById(entries, id, i + 1)

\* Index of the first entry with the name, 0 for None (Iterator::find).
RECURSIVE FindByName(_, _, _)
FindByName(entries, name, i) ==
    IF i > Len(entries) THEN 0
    ELSE IF entries[i].name = name THEN i
    ELSE FindByName(entries, name, i + 1)

\* A lookup that never finds the identifier.
GetMutByIdMiss(entries, id) == 0

\* Transmission::get_mut_by_id
GetMutById(entries, id) == FindById(entries, id, 1)

\* Transmission::get_by_name
GetByName(entries, name) == FindByName(entries, name, 1)

\* A loop that does not end at the summary line.
IsSumLineNever(line) == FALSE

\* The test that ends the loop at the summary line.
IsSumLine(line) == StartsWith(Trim(line), "Sum:")

\* The filter_map of update_entries: split on two spaces, trim each piece,
\* keep the non-empty ones.
PiecesOf(line) ==
    LET raw     == SplitTwoSpaces(line)
        trimmed == [k \in 1..Len(raw) |-> Trim(raw[k])]
        NonEmpty(piece) == Len(piece) > 0
    IN  SelectSeq(trimmed, NonEmpty)

\* The number of pieces a data line must have.
FieldCount == 9

\* The percentage token as update_entries reads it.
\* A percentage reading that takes "n/a" for a complete transfer.
PercentageOfNaDone(piece) == IF piece = "n/a" THEN "100%" ELSE piece

PercentageOf(piece) == IF piece = "n/a" THEN "0%" ELSE piece

\* A downloaded quantity that is never read from the line.
DownloadedOfZero(piece) == Ok(BytesZero)

\* The downloaded quantity as update_entries reads it.
DownloadedOf(piece) == IF piece = "None" THEN Ok(BytesZero) ELSE BytesFromStr(piece)

\* What update_entries reads off one line before it touches the entries:
\* the summary test, the pieces, and the values parsed from the pieces
\* (meaningful only when the line has FieldCount pieces).
DecodeLine(line) ==
    LET pieces == PiecesOf(line)
        full   == Len(pieces) = FieldCount
    IN  [sum        |-> IsSumLine(line),
         pieces     |-> pieces,
         id         |-> IF full THEN ParseU64(pieces[1]) ELSE Err("none"),
         percentage |-> IF full THEN PercentageOf(pieces[2]) ELSE "",
         downloaded |-> IF full THEN DownloadedOf(pieces[3]) ELSE Err("none"),
         status     |-> IF full THEN StatusFromStr(pieces[8]) ELSE Err("none"),
         name       |-> IF full THEN pieces[9] ELSE ""]

\* Lines and DecodeLine tabulated over the inputs of the model, so that each
\* text is cut and parsed once.
LinesTable == [r \in Reports |-> Lines(r)]

LinesOf(s) == LinesTable[s]

KnownLines ==
    UNION {{LinesTable[r][k] : k \in 1..Len(LinesTable[r])} : r \in Reports}

DecodeTable == [l \in KnownLines |-> DecodeLine(l)]

Decoded(line) == DecodeTable[line]

\* A loop that does not skip the first line.
FirstDataLineUnskipped == 2 - 1

\* The line at which the loop starts: lines().skip(1).
FirstDataLine == 2

\* Transmission::update_entries, from line i of the report on.  The result
\* carries the entries as the loop left them, the value returned ("Ok" or
\* the error), and the index of the line at which the loop ended.
RECURSIVE UpdateFrom(_, _, _, _)
UpdateFrom(entries, lines, i, view) ==
    LET Return(e, r) == [entries |-> e, result |-> r, stop |-> i] IN
    IF i > Len(lines) THEN Return(entries, "Ok")
    ELSE
    LET d == Decoded(lines[i]) IN
    IF d.sum THEN Return(entries, "Ok")
    ELSE IF Len(d.pieces) # FieldCount THEN Return(entries, "InvalidEntryFormat")
    ELSE IF ~d.id.ok THEN Return(entries, "InvalidEntryFormat")
    ELSE IF ~d.downloaded.ok THEN Return(entries, d.downloaded.err)
    ELSE IF ~d.status.ok THEN Return(entries, d.status.err)
    ELSE
    LET id == d.id.val
        at == GetMutById(entries, id)
    IN
    IF at # 0
    THEN LET fresh == EntryFromId(id, view) IN
         IF ~fresh.ok THEN Return(entries, fresh.err)
         ELSE UpdateFrom([entries EXCEPT ![at] = fresh.val], lines, i + 1, view)
    ELSE IF d.percentage = "100%"
    THEN UpdateFrom(
            Append(entries,
                   EntryCompleted(id, d.downloaded.val, d.status.val, d.name)),
            lines, i + 1, view)
    ELSE LET fresh == EntryFromId(id, view) IN
         IF ~fresh.ok THEN Return(entries, fresh.err)
         ELSE UpdateFrom(Append(entries, fresh.val), lines, i + 1, view)

\* A reconciliation that rebuilds the set from the report alone.
UpdateEntriesRebuild(entries, s, view) ==
    UpdateFrom(<<>>, LinesOf(s), FirstDataLine, view)

UpdateEntries(entries, s, view) == UpdateFrom(entries, LinesOf(s), FirstDataLine, view)

\* The identifiers in field 0 of the data lines among lines[i..stop].
RECURSIVE IdsRead(_, _, _)
IdsRead(lines, i, stop) ==
    IF i > stop \/ i > Len(lines) THEN {}
    ELSE LET d    == Decoded(lines[i])
             here == IF ~d.sum /\ d.id.ok THEN {d.id.val} ELSE {}
         IN  here \cup IdsRead(lines, i + 1, stop)

\* The identifiers a refresh over report s may look up.
LookupIdsTable ==
    [r \in Reports |-> IdsRead(LinesTable[r], FirstDataLine, Len(LinesTable[r]))]

\* The identifiers the daemon may know, and the name it gives each.
TorrentIds == {1, 2}

TorrentName(id) == IF id = 1 THEN "a" ELSE "b c"

InfoQueued(id) ==
    [name |-> TorrentName(id), status |-> "Queued",
     downloaded |-> BytesZero, finished |-> FALSE]

InfoActive(id) ==
    [name |-> TorrentName(id), status |-> "Downloading",
     downloaded |-> Canon(5, 3), finished |-> FALSE]

InfoDone(id) ==
    [name |-> TorrentName(id), status |-> "Seeding",
     downloaded |-> Canon(1, 6), finished |-> TRUE]

\* What the daemon may answer when asked about the identifiers of ids.
Answers(id) ==
    {Err("LookupFailed"), Ok(InfoQueued(id)), Ok(InfoActive(id)), Ok(InfoDone(id))}

Views(ids) ==
    {v \in [ids -> UNION {Answers(id) : id \in ids}] :
        \A id \in ids : v[id] \in Answers(id)}

(***************************************************************************)
(* State                                                                    *)
(***************************************************************************)

\* Quantity texts for Bytes::from_str: a magnitude token, a unit token, and
\* white space around them.  A magnitude carries the decimal value m * 10^e
\* it denotes, or num = FALSE when it is not a number.
Number(txt, m, e) == [txt |-> txt, num |-> TRUE, m |-> m, e |-> e]

NotNumber(txt) == [txt |-> txt, num |-> FALSE, m |-> 0, e |-> 0]

Amounts ==
    {Number("0", 0, 0), Number("1", 1, 0), Number("5", 5, 0),
     Number("12", 12, 0), Number("300", 300, 0), Number("786.8", 7868, -1),
     Number("1.5", 15, -1), Number("0.25", 25, -2), Number("+3", 3, 0),
     Number("-2", -2, 0),
     NotNumber(""), NotNumber("x"), NotNumber("None"), NotNumber("1x"),
     NotNumber("5MB"), NotNumber("1,5"), NotNumber("1.2.3"), NotNumber("--1")}

UnitTokens == {"B", "kB", "MB", "GB"}

Units == UnitTokens \cup {"", "XB", "b", "KB", "TB", "mb", "Bytes", "7"}

\* A missing magnitude is a text without tokens; a third token can only
\* follow a unit.
Quantities ==
    {q \in [amount : Amounts, unit : Units,
            lead : {"", "  "}, tail : {"", " left"}] :
        /\ q.amount.txt = "" => q.unit = ""
        /\ q.unit = "" => q.tail = ""}

QuantityText(q) ==
    q.lead \o q.amount.txt
           \o (IF q.unit = "" THEN "" ELSE " " \o q.unit) \o q.tail

NoQuantity ==
    [amount |-> NotNumber(""), unit |-> "", lead |-> "", tail |-> ""]

\* The callers that may run Transmission::start side by side, and the number
\* of start calls each of them makes at most.
NumProcs == 2

MaxStartCalls == 2

Procs == 1..NumProcs

VARIABLES
    daemons,     \* number of running processes with the daemon's name
    manager,     \* TRUE while the program holds a Transmission value
    entries,     \* Transmission::entries of that value
    lastOp,      \* the call that has just returned, "none" once the caller
                 \* has taken its result
    lastOut,     \* what the control utility printed for the last refresh
    lastResult,  \* what the last call returned
    lastView,    \* what the daemon answered to the lookups of that refresh
    lastStop,    \* the report line at which the last update_entries ended
    lastSpawned, \* number of processes the last call spawned
    before,      \* the entries as they were when the last call was made
    mentioned,   \* identifiers read from field 0 of the data lines processed
                 \* since the manager was made
    pc,          \* where the client's install command stands
    active,      \* main's `active` flag
    position,    \* the progress bar's position
    resets,      \* number of times the progress bar was reset
    observed,    \* the poll loop has seen, after a refresh, a finished entry
                 \* with the package's transfer name in the manager's entries
    registry,    \* TRUE once the package is in the installed-package registry
    quantity,    \* the quantity text handed to Bytes::from_str
    parsed,      \* what Bytes::from_str returned for it
    spc,         \* where each concurrent caller of Transmission::start stands
    holders,     \* the callers that hold a Transmission value
    calls        \* number of start calls each caller has made

wvars ==
    <<daemons, manager, entries, lastOp, lastOut, lastView, lastResult, lastStop,
      lastSpawned, before, mentioned>>

ivars == <<pc, active, position, resets, observed, registry>>

bvars == <<quantity, parsed>>

cvars == <<spc, holders, calls>>

xvars == <<bvars, cvars>>

vars == <<wvars, ivars, xvars>>

Init ==
    /\ daemons \in {0, 1}
    /\ manager = FALSE
    /\ entries = <<>>
    /\ lastOp = "none"
    /\ lastOut = Err("none")
    /\ lastResult = "none"
    /\ lastStop = 0
    /\ lastView = <<>>
    /\ lastSpawned = 0
    /\ before = <<>>
    /\ mentioned = {}
    /\ pc = "query"
    /\ active = FALSE
    /\ position = 0
    /\ resets = 0
    /\ observed = FALSE
    /\ registry = FALSE
    /\ quantity = NoQuantity
    /\ parsed = Err("none")
    /\ spc = [p \in Procs |-> "idle"]
    /\ holders = {}
    /\ calls = [p \in Procs |-> 0]

(***************************************************************************)
(* lib.rs: process lifecycle                                                *)
(***************************************************************************)

\* A check that never sees the daemon.
IsRunningNever(n) == FALSE

\* Transmission::is_running
IsRunning(n) == n > 0

\* Transmission::start; spawned tells whether Command::spawn succeeds.
StartCall ==
    /\ lastOp' = "start"
    /\ lastOut' = Err("none")
    /\ lastView' = <<>>
    /\ lastStop' = 0
    /\ before' = entries
    /\ IF ~IsRunning(daemons)
       THEN \E spawned \in BOOLEAN :
               IF spawned
               THEN /\ daemons' = daemons + 1
                    /\ lastSpawned' = 1
                    /\ manager' = TRUE
                    /\ entries' = <<>>
                    /\ mentioned' = {}
                    /\ lastResult' = "Ok"
               ELSE /\ lastResult' = "SpawnFailed"
                    /\ lastSpawned' = 0
                    /\ UNCHANGED <<daemons, manager, entries, mentioned>>
       ELSE /\ manager' = TRUE
            /\ entries' = <<>>
            /\ mentioned' = {}
            /\ lastResult' = "Ok"
            /\ lastSpawned' = 0
            /\ UNCHANGED daemons

\* An attach that starts the daemon when none is running.
FromRunningSpawns ==
    /\ lastOp' = "from_running"
    /\ lastOut' = Err("none")
    /\ lastView' = <<>>
    /\ lastStop' = 0
    /\ before' = entries
    /\ daemons' = IF daemons > 0 THEN daemons ELSE 1
    /\ lastSpawned' = IF daemons > 0 THEN 0 ELSE 1
    /\ manager' = TRUE
    /\ entries' = <<>>
    /\ mentioned' = {}
    /\ lastResult' = "Some"

\* Transmission::from_running
FromRunningCall ==
    /\ lastOp' = "from_running"
    /\ lastOut' = Err("none")
    /\ lastView' = <<>>
    /\ lastStop' = 0
    /\ lastSpawned' = 0
    /\ before' = entries
    /\ UNCHANGED daemons
    /\ IF IsRunning(daemons)
       THEN /\ manager' = TRUE
            /\ entries' = <<>>
            /\ mentioned' = {}
            /\ lastResult' = "Some"
       ELSE /\ lastResult' = "None"
            /\ UNCHANGED <<manager, entries, mentioned>>

\* dist_utils::misc::stop_process_by_name: every process of that name ends.
StopProcessByName(n) == 0

\* Transmission::stop consumes the manager.
StopCall ==
    /\ manager
    /\ daemons' = StopProcessByName(daemons)
    /\ manager' = FALSE
    /\ entries' = <<>>
    /\ mentioned' = {}
    /\ lastOp' = "stop"
    /\ lastOut' = Err("none")
    /\ lastView' = <<>>
    /\ lastResult' = "Ok"
    /\ lastStop' = 0
    /\ lastSpawned' = 0
    /\ before' = entries

(***************************************************************************)
(* lib.rs: commands                                                         *)
(***************************************************************************)

\* A submit that also records a placeholder entry for the new transfer.
SubmitCallAdds(op, status) ==
    /\ manager
    /\ lastOp' = op
    /\ lastOut' = Err("none")
    /\ lastView' = <<>>
    /\ lastResult' = status
    /\ lastStop' = 0
    /\ lastSpawned' = 0
    /\ before' = entries
    /\ entries' = IF status = "Ok" /\ Len(entries) = 0
                  THEN <<[id |-> 1, name |-> "a", status |-> "Queued",
                          downloaded |-> BytesZero, finished |-> FALSE]>>
                  ELSE entries
    /\ UNCHANGED <<daemons, manager, mentioned>>

\* The body shared by seed_local_torrent and download_torrent: run the
\* control utility and wait for it; status tells whether running it worked.
SubmitCall(op, status) ==
    /\ manager
    /\ lastOp' = op
    /\ lastOut' = Err("none")
    /\ lastView' = <<>>
    /\ lastResult' = status
    /\ lastStop' = 0
    /\ lastSpawned' = 0
    /\ before' = entries
    /\ UNCHANGED <<daemons, manager, entries, mentioned>>

\* Transmission::seed_local_torrent
SeedLocalTorrentCall == \E status \in {"Ok", "IoError"} : SubmitCall("seed_local_torrent", status)

\* Transmission::download_torrent
DownloadTorrentCall == \E status \in {"Ok", "IoError"} : SubmitCall("download_torrent", status)

(***************************************************************************)
(* lib.rs: refresh                                                          *)
(***************************************************************************)

\* Transmission::refresh.  out is the outcome of running the list command
\* and decoding its output, view the daemon's answers to the lookups.
RefreshWith(out, view) ==
    /\ lastOp' = "refresh"
    /\ lastOut' = out
    /\ lastView' = view
    /\ lastSpawned' = 0
    /\ before' = entries
    /\ UNCHANGED <<daemons, manager>>
    /\ IF ~out.ok
       THEN /\ lastResult' = out.err
            /\ lastStop' = 0
            /\ UNCHANGED <<entries, mentioned>>
       ELSE LET u == UpdateEntries(entries, out.val, view) IN
            /\ entries' = u.entries
            /\ lastResult' = u.result
            /\ lastStop' = u.stop
            /\ mentioned' = mentioned \cup IdsRead(LinesOf(out.val), 2, u.stop)

\* A refresh over any of the reports of rs, or whose list command fails or
\* prints what is not UTF-8.
RefreshCall(rs) ==
    /\ manager
    /\ \E out \in {Err("IoError"), Err("FromUtf8Error")} \cup {Ok(r) : r \in rs} :
          \E view \in Views(IF out.ok THEN LookupIdsTable[out.val] ELSE {}) :
              RefreshWith(out, view)

(***************************************************************************)
(* The wrapper driven call by call                                          *)
(***************************************************************************)

Start == lastOp = "none" /\ StartCall /\ UNCHANGED ivars
    /\ UNCHANGED xvars

FromRunning == lastOp = "none" /\ FromRunningCall /\ UNCHANGED ivars
    /\ UNCHANGED xvars

Stop == lastOp = "none" /\ StopCall /\ UNCHANGED ivars
    /\ UNCHANGED xvars

SeedLocalTorrent == lastOp = "none" /\ SeedLocalTorrentCall /\ UNCHANGED ivars
    /\ UNCHANGED xvars

DownloadTorrent == lastOp = "none" /\ DownloadTorrentCall /\ UNCHANGED ivars
    /\ UNCHANGED xvars

Refresh == lastOp = "none" /\ RefreshCall(Reports) /\ UNCHANGED ivars
    /\ UNCHANGED xvars

\* The caller takes the result of the call that has just returned and goes
\* on; what the call left in the manager stays.
Continue ==
    /\ lastOp # "none"
    /\ lastOp' = "none"
    /\ lastOut' = Err("none")
    /\ lastView' = <<>>
    /\ lastResult' = "none"
    /\ lastStop' = 0
    /\ lastSpawned' = 0
    /\ before' = <<>>
    /\ UNCHANGED <<daemons, manager, entries, mentioned>>
    /\ UNCHANGED ivars
    /\ UNCHANGED xvars

Next ==
    \/ Start
    \/ FromRunning
    \/ Stop
    \/ SeedLocalTorrent
    \/ DownloadTorrent
    \/ Refresh
    \/ Continue

Spec == Init /\ [][Next]_vars

(***************************************************************************)
(* dist-client main.rs: the install command                                 *)
(***************************************************************************)

\* PackageEntry::torrent_name of the package being installed.
PkgTorrentName == "a"

\* The reports the list command prints while the install polls.
InstallReports ==
    {JoinLines(ls) : ls \in {<<HeaderLine>>,
                             <<HeaderLine, LineNa2>>,
                             <<HeaderLine, LinePart1>>,
                             <<HeaderLine, LineDone1, SumLine>>,
                             <<HeaderLine, LinePart1, LineNa2>>,
                             <<HeaderLine, LineNa2, LineShort>>}}

\* `f32::from(bytes) as u64`: the whole bytes of a quantity, none below zero.
RECURSIVE Pow10(_)
Pow10(n) == IF n = 0 THEN 1 ELSE 10 * Pow10(n - 1)

BytesAsU64(b) ==
    IF b.m <= 0 THEN 0
    ELSE IF b.e >= 0 THEN b.m * Pow10(b.e)
    ELSE b.m \div Pow10(-b.e)

\* The query of the package database: the package is found or the command
\* ends with an error.
InstallQuery ==
    /\ pc = "query"
    /\ \E found \in BOOLEAN : pc' = IF found THEN "start" ELSE "failed"
    /\ UNCHANGED <<active, position, resets, observed, registry>>
    /\ UNCHANGED wvars
    /\ UNCHANGED xvars

\* Transmission::start(...)?
InstallStart ==
    /\ pc = "start"
    /\ StartCall
    /\ pc' = IF lastResult' = "Ok" THEN "submit" ELSE "failed"
    /\ UNCHANGED <<active, position, resets, observed, registry>>
    /\ UNCHANGED xvars

\* transmission.download_torrent(entry.magnet())?
InstallSubmit ==
    /\ pc = "submit"
    /\ DownloadTorrentCall
    /\ pc' = IF lastResult' = "Ok" THEN "poll" ELSE "failed"
    /\ UNCHANGED <<active, position, resets, observed, registry>>
    /\ UNCHANGED xvars

\* A poll loop that leaves as soon as the named entry is found.
PollExitOnFound(es, name) == GetByName(es, name) # 0

\* A poll loop that never breaks.
PollExitNever(es, name) == FALSE

\* The test on which the poll loop breaks: the entry found under the name is
\* finished.
PollExit(es, name) ==
    LET at == GetByName(es, name) IN at # 0 /\ IsFinished(es[at])

\* A poll loop that goes on polling after a failed refresh.
InstallPollRetry ==
    /\ pc = "poll"
    /\ RefreshCall(InstallReports)
    /\ IF lastResult' # "Ok"
       THEN /\ pc' = "poll"
            /\ UNCHANGED <<active, position, resets, observed>>
       ELSE LET at == GetByName(entries', PkgTorrentName) IN
            /\ observed' =
                  (observed \/ \E k \in 1..Len(entries') :
                                   /\ entries'[k].name = PkgTorrentName
                                   /\ entries'[k].finished)
            /\ IF PollExit(entries', PkgTorrentName)
               THEN /\ pc' = "register"
                    /\ UNCHANGED <<active, position, resets>>
               ELSE /\ pc' = "poll"
                    /\ IF at # 0 /\ entries'[at].downloaded # BytesZero
                       THEN /\ resets' = IF ~active THEN resets + 1 ELSE resets
                            /\ active' = TRUE
                            /\ position' = BytesAsU64(entries'[at].downloaded)
                       ELSE UNCHANGED <<active, position, resets>>
    /\ UNCHANGED registry
    /\ UNCHANGED xvars

\* A poll loop that sets the progress bar whenever the entry is found.
InstallPollAlwaysSets ==
    /\ pc = "poll"
    /\ RefreshCall(InstallReports)
    /\ IF lastResult' # "Ok"
       THEN /\ pc' = "failed"
            /\ UNCHANGED <<active, position, resets, observed>>
       ELSE LET at == GetByName(entries', PkgTorrentName) IN
            /\ observed' =
                  (observed \/ \E k \in 1..Len(entries') :
                                   /\ entries'[k].name = PkgTorrentName
                                   /\ entries'[k].finished)
            /\ IF PollExit(entries', PkgTorrentName)
               THEN /\ pc' = "register"
                    /\ UNCHANGED <<active, position, resets>>
               ELSE /\ pc' = "poll"
                    /\ IF at # 0
                       THEN /\ resets' = IF ~active THEN resets + 1 ELSE resets
                            /\ active' = TRUE
                            /\ position' = BytesAsU64(entries'[at].downloaded)
                       ELSE UNCHANGED <<active, position, resets>>
    /\ UNCHANGED registry
    /\ UNCHANGED xvars

\* A poll loop that resets the progress bar on every turn with progress.
InstallPollResetsEach ==
    /\ pc = "poll"
    /\ RefreshCall(InstallReports)
    /\ IF lastResult' # "Ok"
       THEN /\ pc' = "failed"
            /\ UNCHANGED <<active, position, resets, observed>>
       ELSE LET at == GetByName(entries', PkgTorrentName) IN
            /\ observed' =
                  (observed \/ \E k \in 1..Len(entries') :
                                   /\ entries'[k].name = PkgTorrentName
                                   /\ entries'[k].finished)
            /\ IF PollExit(entries', PkgTorrentName)
               THEN /\ pc' = "register"
                    /\ UNCHANGED <<active, position, resets>>
               ELSE /\ pc' = "poll"
                    /\ IF at # 0 /\ entries'[at].downloaded # BytesZero
                       THEN /\ resets' = resets + 1
                            /\ active' = TRUE
                            /\ position' = BytesAsU64(entries'[at].downloaded)
                       ELSE UNCHANGED <<active, position, resets>>
    /\ UNCHANGED registry
    /\ UNCHANGED xvars

\* One turn of the poll loop: refresh, look the transfer up by name, leave
\* the loop or update the progress bar, sleep.
InstallPoll ==
    /\ pc = "poll"
    /\ RefreshCall(InstallReports)
    /\ IF lastResult' # "Ok"
       THEN /\ pc' = "failed"
            /\ UNCHANGED <<active, position, resets, observed>>
       ELSE LET at == GetByName(entries', PkgTorrentName) IN
            /\ observed' =
                  (observed \/ \E k \in 1..Len(entries') :
                                   /\ entries'[k].name = PkgTorrentName
                                   /\ entries'[k].finished)
            /\ IF PollExit(entries', PkgTorrentName)
               THEN /\ pc' = "register"
                    /\ UNCHANGED <<active, position, resets>>
               ELSE /\ pc' = "poll"
                    /\ IF at # 0 /\ entries'[at].downloaded # BytesZero
                       THEN /\ resets' = IF ~active THEN resets + 1 ELSE resets
                            /\ active' = TRUE
                            /\ position' = BytesAsU64(entries'[at].downloaded)
                       ELSE UNCHANGED <<active, position, resets>>
    /\ UNCHANGED registry
    /\ UNCHANGED xvars

\* DistpacDB::connect(installed_db_file)? and add_package_entry(entry)?
InstallRegister ==
    /\ pc = "register"
    /\ \E written \in BOOLEAN :
          /\ registry' = written
          /\ pc' = IF written THEN "done" ELSE "failed"
    /\ UNCHANGED <<active, position, resets, observed>>
    /\ UNCHANGED wvars
    /\ UNCHANGED xvars

NextInstall ==
    \/ InstallQuery
    \/ InstallStart
    \/ InstallSubmit
    \/ InstallPoll
    \/ InstallRegister

SpecInstall == Init /\ [][NextInstall]_vars

\* The install command with the poll loop's thread running on: between two
\* turns it only sleeps 200 ms, so a turn that can be taken is taken.
SpecInstallFair == Init /\ [][NextInstall]_vars /\ WF_vars(InstallPoll)

(***************************************************************************)
(* Properties of the wrapper                                                *)
(***************************************************************************)

\* The identifiers held in a sequence of entries.
IdsOf(es) == {es[k].id : k \in 1..Len(es)}

\* The lines of the report of the refresh that has just returned.
LastLines == IF lastOut.ok THEN LinesOf(lastOut.val) ELSE <<>>

Refreshed == lastOp = "refresh" /\ lastOut.ok

\* The fields of a line as the report format defines them: the non-empty
\* trimmed pieces between runs of two spaces.
RECURSIVE FieldsFrom(_, _)
FieldsFrom(raw, k) ==
    IF k > Len(raw) THEN <<>>
    ELSE IF Len(Trim(raw[k])) = 0 THEN FieldsFrom(raw, k + 1)
    ELSE <<Trim(raw[k])>> \o FieldsFrom(raw, k + 1)

FieldsTable == [l \in KnownLines |-> FieldsFrom(SplitTwoSpaces(l), 1)]

FieldsOf(line) == FieldsTable[line]

IsInteger(f) ==
    \/ AllDigits(f)
    \/ Len(f) > 1 /\ Ch(f, 1) \in {"+", "-"} /\ AllDigits(SubSeq(f, 2, Len(f)))

\* Index of the first line after the header that starts with "Sum:" once
\* trimmed, one past the last line when there is none; tabulated per report.
RECURSIVE SumIndexFrom(_, _)
SumIndexFrom(lines, i) ==
    IF i > Len(lines) THEN i
    ELSE IF StartsWith(Trim(lines[i]), "Sum:") THEN i
    ELSE SumIndexFrom(lines, i + 1)

SumIndexTable == [r \in Reports |-> SumIndexFrom(LinesTable[r], 2)]

\* The same for the report of the refresh that has just returned.
LastSumIndex == SumIndexTable[lastOut.val]

\* C1: a refresh that fails because a data line does not parse leaves the
\* entries as they were before the call.
C1_FailedRefreshChangesNothing ==
    (lastOp = "refresh" /\ lastResult \in {"InvalidEntryFormat", "InvalidByteFormat"})
        => entries = before

\* C2: the entry set holds at most one entry per identifier.
C2_OneEntryPerId ==
    \A i, j \in 1..Len(entries) : entries[i].id = entries[j].id => i = j

\* C2 witness: a refresh over a report that lists identifier 1 on two lines
\* has returned and left a single entry.
C2_Witness ==
    /\ lastOp = "refresh"
    /\ lastOut = Ok(JoinLines(<<HeaderLine, LineDone1, LinePart1>>))
    /\ lastResult = "Ok"
    /\ Len(entries) = 1

\* C3: within one manager's lifetime the identifiers held only grow: every
\* step that neither makes nor consumes a manager keeps every identifier.
C3_IdsOnlyGrow ==
    [][lastOp' \notin {"start", "from_running", "stop"}
          => IdsOf(entries) \subseteq IdsOf(entries')]_vars

\* C3 witness: a refresh over an empty report has returned and the manager
\* still holds the two entries it held before.
C3_Witness ==
    /\ lastOp = "refresh"
    /\ lastOut = Ok("")
    /\ Len(before) = 2
    /\ IdsOf(entries) = {1, 2}

\* C4 as stated: after a start call exactly one daemon process is running.
C4_OneDaemonAfterStart == lastOp = "start" => daemons = 1

\* What a start call that has returned leaves: a manager without entries
\* and one daemon, or the spawn error and no daemon.
C4_StartReturn ==
    lastOp = "start" =>
        /\ lastSpawned <= 1
        /\ lastResult \in {"Ok", "SpawnFailed"}
        /\ lastResult = "Ok" =>
              /\ daemons = 1
              /\ manager
              /\ entries = <<>>
        /\ lastResult = "SpawnFailed" =>
              /\ daemons = 0
              /\ lastSpawned = 0
              /\ entries = before

\* The start step: made while the daemon runs it changes no process and
\* returns a manager; made while none runs it spawns one process or fails.
C4_StartStep ==
    [][lastOp' = "start" =>
          IF daemons > 0
          THEN daemons' = daemons /\ lastSpawned' = 0 /\ lastResult' = "Ok" /\ manager'
          ELSE daemons' = lastSpawned' /\ (lastResult' = "Ok" <=> lastSpawned' = 1)]_vars

\* C4 amended: start spawns nothing and succeeds when the daemon runs; when
\* none runs it makes one spawn attempt, which leaves one daemon and returns
\* a manager, or fails, leaves none and returns the error.  After a start
\* that returned a manager exactly one daemon runs.
C4_StartIdempotent == []C4_StartReturn /\ C4_StartStep

\* C4 witness: a start made while the daemon was already running has
\* returned a manager without spawning.
C4_Witness ==
    lastOp = "start" /\ lastResult = "Ok" /\ lastSpawned = 0 /\ daemons = 1

\* C5: from_running returns a manager, with no entries, exactly when a
\* daemon process is running, and leaves the running processes as they were.
C5_FromRunning ==
    [][lastOp' = "from_running" =>
          /\ daemons' = daemons
          /\ lastSpawned' = 0
          /\ lastResult' = "Some" <=> daemons > 0
          /\ lastResult' = "None" <=> daemons = 0
          /\ lastResult' = "Some" => manager' /\ entries' = <<>>
          /\ lastResult' = "None" => manager' = manager /\ entries' = entries]_vars

\* C5 witness: from_running has returned nothing and no daemon runs.
C5_Witness ==
    lastOp = "from_running" /\ lastResult = "None" /\ daemons = 0 /\ ~manager

\* A line that is not the summary line and has nine well-formed fields.
GoodLineTable ==
    [l \in KnownLines |->
        /\ ~StartsWith(Trim(l), "Sum:")
        /\ LET f == FieldsOf(l) IN
           /\ Len(f) = 9
           /\ AllDigits(f[1])
           /\ f[3] = "None" \/ BytesFromStr(f[3]).ok
           /\ f[8] \in StatusTokens]

\* A report of a first line and exactly one data line, whose nine fields are
\* well formed.
OneGoodLine(lines) == Len(lines) = 2 /\ GoodLineTable[lines[2]]

\* The downloaded quantity a well-formed line states.
QuantityTable ==
    [l \in KnownLines |->
        IF GoodLineTable[l] /\ FieldsOf(l)[3] # "None"
        THEN BytesFromStr(FieldsOf(l)[3]).val
        ELSE BytesZero]

\* The entries hold exactly the record the line's fields describe, and the
\* lookup by the line's name returns it.
HoldsLine(es, line) ==
    LET f == FieldsOf(line) IN
    /\ Len(es) = 1
    /\ es[1].id = DecValue(f[1])
    /\ es[1].downloaded = QuantityTable[line]
    /\ es[1].status = f[8]
    /\ es[1].name = f[9]
    /\ GetByName(es, f[9]) = 1

\* C6 as stated: from no entries, a refresh over a report of a header and
\* one well-formed data line leaves exactly the entry of that line.
C6_OneLineOneEntry ==
    (Refreshed /\ before = <<>> /\ OneGoodLine(LastLines))
        => HoldsLine(entries, LastLines[2])

\* C6 amended: the same when the line's percentage is "100%"; with another
\* percentage the set holds the lookup's record for the line's identifier,
\* or nothing when the lookup fails.
C6_OneCompleteLineOneEntry ==
    (Refreshed /\ before = <<>> /\ OneGoodLine(LastLines)) =>
        LET f == FieldsOf(LastLines[2]) IN
        IF f[2] = "100%"
        THEN lastResult = "Ok" /\ HoldsLine(entries, LastLines[2])
        ELSE LET id == DecValue(f[1]) IN
             IF lastView[id].ok
             THEN /\ lastResult = "Ok"
                  /\ Len(entries) = 1
                  /\ entries[1].id = id
                  /\ entries[1].name = lastView[id].val.name
                  /\ entries[1].downloaded = lastView[id].val.downloaded
             ELSE lastResult # "Ok" /\ entries = <<>>

\* C6 witness: from no entries, the refresh over the header and the line of
\* a complete transfer has left that transfer's entry.
C6_Witness ==
    /\ lastOp = "refresh"
    /\ before = <<>>
    /\ lastOut = Ok(JoinLines(<<HeaderLine, LineDone1>>))
    /\ Len(entries) = 1
    /\ entries[1].downloaded = Canon(7868, 5)
    /\ GetByName(entries, "a") = 1

\* C8: the first line is never parsed and nothing at or after the first
\* "Sum:" line is: the loop ends at or before that line, without error when
\* it ends there, new identifiers come only from the lines between, and the
\* refresh does what it does on the report cut before the marker and on the
\* report with another first line.
C8_HeaderAndSumBound ==
    Refreshed =>
        LET lines == LastLines
            sum   == LastSumIndex
            cut   == SubSeq(lines, 1, sum - 1)
            onCut == UpdateFrom(before, cut, FirstDataLine, lastView)
            onHdr == UpdateFrom(before, <<HeaderLine>> \o Tail(lines),
                                FirstDataLine, lastView)
        IN  /\ lastStop >= 2
            /\ lastStop <= sum
            /\ lastStop = sum => lastResult = "Ok"
            /\ IdsOf(entries) \ IdsOf(before) \subseteq IdsRead(lines, 2, sum - 1)
            /\ Len(lines) > 0 =>
                  /\ entries = onCut.entries /\ lastResult = onCut.result
                  /\ entries = onHdr.entries /\ lastResult = onHdr.result

\* C8 witness: a refresh over a report whose first line is a data line and
\* whose "Sum:" line is followed by a malformed line has returned Ok and
\* changed nothing.
C8_Witness ==
    /\ lastOp = "refresh"
    /\ lastOut = Ok(JoinLines(<<LineDone2, SumLine, LineShort>>))
    /\ lastResult = "Ok"
    /\ entries = before

\* A data line that does not split into exactly nine fields, or whose field
\* 0 is not an integer.
MalformedTable ==
    [l \in KnownLines |-> LET f == FieldsOf(l) IN Len(f) # 9 \/ ~IsInteger(f[1])]

Malformed(line) == MalformedTable[line]

\* C9: a malformed data line that the loop comes to makes the refresh return
\* InvalidEntryFormat at that line: the loop never goes past it.
C9_MalformedLineFails ==
    Refreshed =>
        \A i \in 2..Len(LastLines) :
            (i < LastSumIndex /\ i <= lastStop /\ Malformed(LastLines[i]))
                => lastResult = "InvalidEntryFormat" /\ lastStop = i

\* C9 witness: a refresh over a report whose first data line has eight
\* fields has failed at that line, with a well-formed line after it.
C9_Witness ==
    /\ lastOp = "refresh"
    /\ lastOut = Ok(JoinLines(<<HeaderLine, LineShort, LineDone1>>))
    /\ lastResult = "InvalidEntryFormat"
    /\ lastStop = 2
    /\ entries = before

\* C10: every identifier held was field 0 of a data line of a report this
\* manager has processed.
C10_NoFabricatedId == IdsOf(entries) \subseteq mentioned

\* C10 witness: the manager holds a record that came from the lookup by
\* identifier, for an identifier a processed data line carried.
C10_Witness ==
    /\ lastOp = "refresh"
    /\ lastOut = Ok(JoinLines(<<LineDone2, LinePart1>>))
    /\ entries = <<[id |-> 1] @@ InfoActive(1)>>
    /\ mentioned = {1}

(***************************************************************************)
(* Properties of the install command                                        *)
(***************************************************************************)

\* C7: the package is in the registry only after the poll loop has seen a
\* finished entry with the package's transfer name; the registry is written
\* in no step before that.
C7_RegistryAfterCompletion ==
    /\ [](registry => observed)
    /\ [](pc \in {"register", "done"} => observed)
    /\ [][registry' /\ ~registry => observed /\ pc = "register"]_vars

\* C7 witness: the install has recorded the package, after polls that found
\* the transfer active before they found it finished.
C7_Witness == registry /\ pc = "done" /\ observed /\ active

(***************************************************************************)
(* Properties settled on the commands, the quantity parser and the loop     *)
(***************************************************************************)

\* C11: a submit command leaves the entries, the manager and the processes
\* as they were, whatever it returns; and a name becomes visible through
\* get_by_name only in a refresh whose report lists the identifier of the
\* entry that carries it.
C11_SubmitLeavesEntries ==
    [][/\ lastOp' \in {"seed_local_torrent", "download_torrent"} =>
             /\ entries' = entries
             /\ daemons' = daemons
             /\ manager' = manager
       /\ \A k \in 1..Len(entries') :
             GetByName(entries, entries'[k].name) = 0 =>
                 /\ lastOp' = "refresh"
                 /\ lastOut'.ok
                 /\ entries'[k].id \in LookupIdsTable[lastOut'.val]]_vars

\* C11 witness: download_torrent has been accepted and the name of the
\* transfer is not to be found in the manager's entries, which are as before.
C11_Witness ==
    /\ lastOp = "download_torrent"
    /\ lastResult = "Ok"
    /\ entries = before
    /\ Len(entries) = 1
    /\ GetByName(entries, "a") = 0

\* The identifier a well-formed line states.
LineId(line) == DecValue(FieldsOf(line)[1])

\* The record Entry::completed makes of a well-formed line's fields.
CompletedOf(line) ==
    LET f == FieldsOf(line) IN
    [id |-> LineId(line), name |-> f[9], status |-> f[8],
     downloaded |-> QuantityTable[line], finished |-> TRUE]

\* The record the lookup has answered for id in the last refresh.
LookedUp(id) == [id |-> id] @@ lastView[id].val

\* Line i of the last report is well formed, was reached by the refresh, and
\* states an identifier that the entries did not hold before the call and
\* that no other line processed by the refresh states.
NewIdLine(i) ==
    /\ i \in 2..Len(LastLines)
    /\ i <= lastStop
    /\ GoodLineTable[LastLines[i]]
    /\ LineId(LastLines[i]) \notin IdsOf(before)
    /\ \A j \in 2..(lastStop - 1) :
          j # i => LineId(LastLines[j]) # LineId(LastLines[i])

\* C14: a line with an identifier not yet in the set and the percentage
\* "100%" appends the completed entry made of the line's identifier,
\* downloaded quantity, status and name, whatever the lookup would answer;
\* with any other percentage, "n/a" among them, it appends the record of
\* the per-identifier lookup, and fails the refresh when that lookup fails.
C14_NewIdAppends ==
    Refreshed =>
        \A i \in 2..Len(LastLines) :
            NewIdLine(i) =>
                LET line == LastLines[i]
                    id   == LineId(line)
                    made == {k \in 1..Len(entries) : entries[k].id = id}
                IN  IF FieldsOf(line)[2] = "100%"
                    THEN /\ i < lastStop
                         /\ \E k \in made :
                               k > Len(before) /\ entries[k] = CompletedOf(line)
                    ELSE IF lastView[id].ok
                    THEN /\ i < lastStop
                         /\ \E k \in made :
                               k > Len(before) /\ entries[k] = LookedUp(id)
                    ELSE /\ i = lastStop
                         /\ lastResult = "LookupFailed"
                         /\ made = {}

\* C14 witness: one refresh has appended the completed entry of a "100%"
\* line although the lookup for its identifier fails, and the lookup's
\* record for an "n/a" line.
C14_Witness ==
    /\ Refreshed
    /\ lastResult = "Ok"
    /\ before = <<>>
    /\ lastOut = Ok(JoinLines(<<HeaderLine, LineDone1, LineNa2>>))
    /\ ~lastView[1].ok
    /\ entries = <<CompletedOf(LineDone1), LookedUp(2)>>

\* Line i of the last report is well formed, was reached by the refresh, and
\* states an identifier that the entries held before the call and that no
\* other line processed by the refresh states.
KnownIdLine(i) ==
    /\ i \in 2..Len(LastLines)
    /\ i <= lastStop
    /\ GoodLineTable[LastLines[i]]
    /\ LineId(LastLines[i]) \in IdsOf(before)
    /\ \A j \in 2..(lastStop - 1) :
          j # i => LineId(LastLines[j]) # LineId(LastLines[i])

\* The identifiers stated by the lines the last refresh has processed.
ProcessedIds == {LineId(LastLines[j]) : j \in 2..(lastStop - 1)}

\* C15: a line with an identifier already in the set puts the record of the
\* per-identifier lookup in the place of the old entry, whatever the line's
\* percentage; no other entry carries the identifier, entries whose
\* identifier no processed line states stay as they were, and a refresh
\* whose lines all state known identifiers leaves the number of entries
\* unchanged.  When the lookup fails the refresh fails and the old entry
\* stays.
C15_KnownIdReplaced ==
    Refreshed =>
        /\ \A i \in 2..Len(LastLines) :
              KnownIdLine(i) =>
                  LET id == LineId(LastLines[i])
                      at == CHOOSE k \in 1..Len(before) : before[k].id = id
                  IN  /\ \A k \in 1..Len(entries) : entries[k].id = id <=> k = at
                      /\ IF lastView[id].ok
                         THEN i < lastStop /\ entries[at] = LookedUp(id)
                         ELSE /\ i = lastStop
                              /\ lastResult = "LookupFailed"
                              /\ entries[at] = before[at]
        /\ \A k \in 1..Len(before) :
              before[k].id \notin ProcessedIds => entries[k] = before[k]
        /\ ProcessedIds \subseteq IdsOf(before) => Len(entries) = Len(before)

\* C15 witness: the completed entry of a "100%" line has been replaced, on a
\* second report with the same "100%" line, by the lookup's record of an
\* unfinished transfer.
C15_Witness ==
    /\ Refreshed
    /\ lastResult = "Ok"
    /\ before = <<CompletedOf(LineDone1)>>
    /\ lastOut = Ok(JoinLines(<<HeaderLine, LineDone1>>))
    /\ lastView[1] = Ok(InfoQueued(1))
    /\ entries = <<LookedUp(1)>>
    /\ ~IsFinished(entries[1])

(***************************************************************************)
(* Properties of the poll loop of the install command                       *)
(***************************************************************************)

\* The refresh of the last turn of the poll loop has succeeded.
PolledOk == lastOp = "refresh" /\ lastResult = "Ok"

\* What get_by_name returns for the package's transfer name (0 for None).
FoundAt == GetByName(entries, PkgTorrentName)

FoundUnfinished == FoundAt # 0 /\ ~IsFinished(entries[FoundAt])

FoundFinished == FoundAt # 0 /\ IsFinished(entries[FoundAt])

\* The downloaded quantity of the entry found, as the progress bar takes it.
Readout == BytesAsU64(entries[FoundAt].downloaded)

\* C16: the first refresh that fails in the poll loop ends the install with
\* that refresh's error: the loop is left for the failed end, no step
\* follows the failed end (no further refresh), and the registry is never
\* written on that path.
C16_RefreshErrorEndsInstall ==
    /\ []((lastOp = "refresh" /\ lastResult # "Ok") =>
              (pc = "failed" /\ ~registry))
    /\ [][/\ (pc = "poll" /\ lastResult' # "Ok") =>
                (pc' = "failed" /\ lastOp' = "refresh" /\ ~registry')
          /\ pc # "failed"]_vars

\* C16 witness: after a turn that found progress, a refresh has failed and
\* the install has ended without a registry entry.
C16_Witness ==
    /\ pc = "failed"
    /\ lastOp = "refresh"
    /\ lastResult = "IoError"
    /\ active
    /\ ~registry

\* C17 as stated: on every turn in which the entry is found and is not
\* finished the progress bar's position is set to the entry's downloaded
\* quantity, zero included.
C17_ReadoutSetEachPoll ==
    [][(pc = "poll" /\ PolledOk' /\ FoundUnfinished') =>
           position' = Readout']_vars

\* C17 amended: on such a turn the position is set to the downloaded
\* quantity when that quantity is not zero, and is left as it was when the
\* quantity is zero.
C17_ReadoutSetWhenNonzero ==
    [][(pc = "poll" /\ PolledOk' /\ FoundUnfinished') =>
           IF entries'[FoundAt'].downloaded # BytesZero
           THEN position' = Readout'
           ELSE position' = position]_vars

\* C17 witness: the entry is found unfinished with nothing downloaded while
\* the progress bar still shows the quantity of an earlier turn.
C17_Witness ==
    /\ pc = "poll"
    /\ PolledOk
    /\ FoundUnfinished
    /\ entries[FoundAt].downloaded = BytesZero
    /\ position = 5000

\* C18: the progress bar is reset at most once per install, on the first
\* turn in which the entry is found, not finished and with a nonzero
\* downloaded quantity; active is false until that turn and true ever
\* after, also when the quantity reads zero later.
C18_ResetOnce ==
    /\ [](resets <= 1 /\ (active <=> resets = 1))
    /\ [][/\ active => active'
          /\ (/\ pc = "poll" /\ PolledOk' /\ FoundUnfinished'
              /\ entries'[FoundAt'].downloaded # BytesZero) =>
                 (active' /\ resets' = IF active THEN resets ELSE resets + 1)
          /\ resets' # resets =>
                 /\ pc = "poll" /\ PolledOk' /\ FoundUnfinished'
                 /\ entries'[FoundAt'].downloaded # BytesZero
                 /\ ~active]_vars

\* C18 witness: after the one reset, a later turn reads a zero quantity and
\* active is still true.
C18_Witness ==
    /\ pc = "poll"
    /\ PolledOk
    /\ FoundUnfinished
    /\ entries[FoundAt].downloaded = BytesZero
    /\ active
    /\ resets = 1

\* C19: the loop is left for the registry step exactly by a turn whose
\* refresh succeeds and whose get_by_name returns a finished entry; a turn
\* whose refresh succeeds without such an entry stays in the loop, whatever
\* the number of turns before; and when from some turn on every turn
\* succeeds and finds a finished entry, the loop does not go on for ever.
C19_LoopExit ==
    /\ [][/\ (pc = "poll" /\ pc' = "register") => (PolledOk' /\ FoundFinished')
          /\ (pc = "poll" /\ PolledOk' /\ FoundFinished') => pc' = "register"
          /\ (pc = "poll" /\ PolledOk' /\ ~FoundFinished') => pc' = "poll"]_vars
    /\ (<>[][pc = "poll" => (PolledOk' /\ FoundFinished')]_vars)
           => <>[](pc # "poll")

\* C19 witness: the loop has been left for the registry step after turns
\* that found the entry unfinished.
C19_Witness ==
    /\ pc = "register"
    /\ PolledOk
    /\ FoundFinished
    /\ active

(***************************************************************************)
(* Bytes::from_str on its own: a quantity text is drawn, parsed, and the    *)
(* next one is drawn.                                                       *)
(***************************************************************************)

InitBytes ==
    /\ daemons = 0
    /\ manager = FALSE
    /\ entries = <<>>
    /\ lastOp = "none"
    /\ lastOut = Err("none")
    /\ lastResult = "none"
    /\ lastStop = 0
    /\ lastView = <<>>
    /\ lastSpawned = 0
    /\ before = <<>>
    /\ mentioned = {}
    /\ pc = "query"
    /\ active = FALSE
    /\ position = 0
    /\ resets = 0
    /\ observed = FALSE
    /\ registry = FALSE
    /\ quantity \in Quantities
    /\ parsed = Err("none")
    /\ spc = [p \in Procs |-> "idle"]
    /\ holders = {}
    /\ calls = [p \in Procs |-> 0]

\* text.parse::<Bytes>()
BytesParse ==
    /\ parsed = Err("none")
    /\ parsed' = BytesFromStr(QuantityText(quantity))
    /\ UNCHANGED <<quantity, cvars, wvars, ivars>>

\* The caller takes the result and turns to the next text.
BytesNext ==
    /\ parsed # Err("none")
    /\ quantity' \in Quantities
    /\ parsed' = Err("none")
    /\ UNCHANGED <<cvars, wvars, ivars>>

NextBytes == BytesParse \/ BytesNext

SpecBytes == InitBytes /\ [][NextBytes]_vars

\* C12: for a numeric magnitude m * 10^e followed by B, kB, MB or GB the
\* parser returns m * 10^e times 10, 10^3, 10^6 or 10^9; with no unit token
\* it returns what it returns for the unit B, ten times the magnitude.
C12_MagnitudeTimesUnit ==
    (parsed # Err("none") /\ quantity.amount.num
        /\ quantity.unit \in UnitTokens \cup {""}) =>
        LET k == CASE quantity.unit = "B"  -> 1
                   [] quantity.unit = "kB" -> 3
                   [] quantity.unit = "MB" -> 6
                   [] quantity.unit = "GB" -> 9
                   [] quantity.unit = ""   -> 1
        IN  parsed = Ok(Canon(quantity.amount.m, quantity.amount.e + k))

\* C12 witness: the text "5", without a unit token, has been parsed to 50.
C12_Witness ==
    /\ parsed.ok
    /\ quantity.amount.txt = "5"
    /\ quantity.unit = ""
    /\ parsed.val = [m |-> 5, e |-> 1]

\* C13: when the magnitude is missing or is not a number, and when a second
\* token is present that is none of B, kB, MB, GB, the parser returns the
\* invalid-quantity-format error and no value.
C13_InvalidQuantity ==
    (parsed # Err("none")
        /\ (~quantity.amount.num \/ quantity.unit \notin UnitTokens \cup {""})) =>
        parsed = Err("InvalidByteFormat")

\* C13 witness: a numeric magnitude with an unknown unit has been refused.
C13_Witness ==
    /\ parsed = Err("InvalidByteFormat")
    /\ quantity.amount.num
    /\ quantity.unit = "XB"

(***************************************************************************)
(* Transmission::start called side by side: the is_running test and the     *)
(* spawn are separate steps of each caller, and no lock is held between.    *)
(***************************************************************************)

\* What the steps of start and stop leave alone in this specification.
startRest ==
    <<manager, entries, lastOp, lastOut, lastView, lastResult, lastStop,
      lastSpawned, before, mentioned, ivars, bvars>>

\* `if !Self::is_running()`: the caller takes the spawn branch or skips it.
StartCheck(p) ==
    /\ spc[p] = "idle"
    /\ calls[p] < MaxStartCalls
    /\ calls' = [calls EXCEPT ![p] = @ + 1]
    /\ spc' = [spc EXCEPT ![p] = IF IsRunning(daemons) THEN "return" ELSE "spawn"]
    /\ UNCHANGED <<daemons, holders, startRest>>

\* A spawn step that looks again whether a daemon runs before it spawns.
StartSpawnRechecks(p) ==
    /\ spc[p] = "spawn"
    /\ daemons' = IF IsRunning(daemons) THEN daemons ELSE daemons + 1
    /\ spc' = [spc EXCEPT ![p] = "return"]
    /\ UNCHANGED <<holders, calls, startRest>>

\* `command.spawn()?` in the branch the caller has taken.
StartSpawn(p) ==
    /\ spc[p] = "spawn"
    /\ \E spawned \in BOOLEAN :
          IF spawned
          THEN /\ daemons' = daemons + 1
               /\ spc' = [spc EXCEPT ![p] = "return"]
          ELSE /\ spc' = [spc EXCEPT ![p] = "idle"]
               /\ UNCHANGED daemons
    /\ UNCHANGED <<holders, calls, startRest>>

\* `Ok(Self::empty(opts))`
StartReturn(p) ==
    /\ spc[p] = "return"
    /\ holders' = holders \cup {p}
    /\ spc' = [spc EXCEPT ![p] = "idle"]
    /\ UNCHANGED <<daemons, calls, startRest>>

\* Transmission::stop by a caller that holds a manager.
StopHeld(p) ==
    /\ spc[p] = "idle"
    /\ p \in holders
    /\ daemons' = StopProcessByName(daemons)
    /\ holders' = holders \ {p}
    /\ UNCHANGED <<spc, calls, startRest>>

NextStart ==
    \/ \E p \in Procs : StartCheck(p)
    \/ \E p \in Procs : StartSpawn(p)
    \/ \E p \in Procs : StartReturn(p)
    \/ \E p \in Procs : StopHeld(p)

SpecStart == Init /\ [][NextStart]_vars

\* C20: a caller of start enters the spawn branch when its own test saw no
\* daemon, and its spawn then adds a process whatever runs by that time;
\* a caller that returns holds a manager whoever else holds one.  Two
\* callers can therefore both spawn (the witness).
C20_CheckThenSpawn ==
    [][\A p \in Procs :
          /\ (spc[p] = "idle" /\ spc'[p] = "spawn") => ~IsRunning(daemons)
          /\ (spc[p] = "spawn" /\ spc'[p] = "return") => daemons' = daemons + 1
          /\ (spc[p] = "return" /\ spc'[p] = "idle") =>
                 holders' = holders \cup {p}]_vars

\* C20 witness: each caller has made one start call, both have returned a
\* manager, and two daemons run.
C20_Witness ==
    /\ daemons = 2
    /\ holders = {1, 2}
    /\ calls[1] = 1
    /\ calls[2] = 1
    /\ \A p \in Procs : spc[p] = "idle"

====
